---- MODULE Spec2Model ----
(***************************************************************************)
(* Shortly: the asynchronous pipeline that turns a source video into short *)
(* clips.  The API creates a Job and a download task; the download worker  *)
(* creates the Video and enqueues the analysis task; the analysis worker   *)
(* creates the Segments and enqueues one extraction task per Segment; the  *)
(* extraction worker creates the Clips and aggregates the Job's progress.  *)
(*                                                                         *)
(* Every handler is a sequence of steps separated by its awaits; a step of *)
(* the model runs the code from one external call to the next.  Rows are   *)
(* kept in sequences, a row's id is its index, 0 is the null reference.    *)
(* Times are integer seconds, except inside generateSlidingWindows, which  *)
(* works in hundredths of a second (0.12*D and 0.08*D are exact there).    *)
(*                                                                         *)
(* Consecutive store writes of one handler with no failing call between    *)
(* them are one step (the value left is that of the last write).  A        *)
(* failure of an external call is a step into the handler's catch block;   *)
(* the helpers that swallow their own errors (updateJobStatus,             *)
(* updateSegmentStatus, updateJobProgress) always succeed here.  The       *)
(* broker retries a task whose handler threw; it delivers no task twice    *)
(* otherwise (no stalled-lock redelivery).                                 *)
(*                                                                         *)
(* The functions of the analysis stage are operators; a call of one of     *)
(* them on its own is a step from input (the function and its arguments)   *)
(* to output (a sequence holding the value returned).                      *)
(***************************************************************************)
EXTENDS Integers, Sequences, FiniteSets, TLC

\* ---------------------------------------------------------------- bounds
MaxJobs == 2        \* submissions accepted by the API in one run
MaxFaults == 1      \* failures of external calls (tools, storage, store, broker) in one run
MaxDuration == 300  \* longest Video, in seconds, of the stage and function specifications
MaxWords == 6       \* longest list of words given to groupIntoSegments
MaxClock == 2       \* milliseconds the clock advances while one batch is analysed

\* ------------------------------------------------------ program constants
DownloadAttempts == 3
AnalysisAttempts == 2
ExtractionAttempts == 3
DownloadConcurrency == 2
AnalysisConcurrency == 1
ExtractionConcurrency == 2
BatchSize == 5
TopN == 8
MIN_CLIP == 15
MAX_CLIP == 60
STEP == 5
PREFERRED == 30

\* ----------------------------------------------------------------- inputs
NoId == "none"
\* a URL is the text before the identifier and the identifier itself
Urls == { <<"youtube.com/watch?v=", "A">>, <<"vimeo.com/", "A">> }
\* duration found in the metadata written by the download utility (0: absent)
Durations == {0, 20, 100}
\* what the external analyzers report for the candidates of one run
Profiles == {"flat", "rising"}

VARIABLES jobs, videos, segments, clips,
          downloadQueue, analysisQueue, extractionQueue, faults,
          input, output

vars == <<jobs, videos, segments, clips,
          downloadQueue, analysisQueue, extractionQueue, faults,
          input, output>>

Min(a, b) == IF a <= b THEN a ELSE b
Max(a, b) == IF a >= b THEN a ELSE b

\* Math.round of the rational p/q, q > 0, p >= 0 (half rounds up)
Round(p, q) == (2 * p + q) \div (2 * q)

\* ----------------------------------------------------------- Job Store
\* workers' updateJobStatus: prisma.job.update of status, progress, currentStep
updateJobStatus(js, jobId, status, progress) ==
    [js EXCEPT ![jobId].status = status, ![jobId].progress = progress]

\* ------------------------------------------------------------- the broker
\* the variables of a handler, as they are when no run of the task is active
DownloadLocals == [video |-> 0]
AnalysisLocals == [duration |-> 0, i |-> 0, ranked |-> <<>>, created |-> <<>>, k |-> 0]
ExtractionLocals == [total |-> 0, extracted |-> 0, captions |-> "notRun"]

\* a handler threw: BullMQ retries the task until `attempts` runs were made
TaskThrow(task, attempts, locals) ==
    locals @@ [task EXCEPT !.attemptsMade = task.attemptsMade + 1,
                           !.pc = "idle",
                           !.state = IF task.attemptsMade + 1 >= attempts
                                     THEN "failed" ELSE "waiting"]

\* a handler returned
TaskReturn(task, locals) ==
    locals @@ [task EXCEPT !.attemptsMade = task.attemptsMade + 1,
                           !.pc = "idle", !.state = "completed"]

Active(queue) == { t \in 1..Len(queue) : queue[t].state = "active" }

\* an external call fails; faults is the number of failures still to come
Fault == /\ faults > 0
         /\ faults' = faults - 1

\* ---------------------------------------------------------------- the API
\* JobsService.create: the Job row, then addDownloadJob
Submit(url) ==
    /\ Len(jobs) < MaxJobs
    /\ jobs' = Append(jobs, [youtubeUrl |-> url, videoId |-> 0, status |-> "queued",
                             progress |-> 0, completedAt |-> FALSE, errorMessage |-> FALSE])
    /\ downloadQueue' = Append(downloadQueue,
                               [jobId |-> Len(jobs) + 1, youtubeUrl |-> url,
                                state |-> "waiting", attemptsMade |-> 0, pc |-> "idle"]
                               @@ DownloadLocals)
    /\ UNCHANGED <<videos, segments, clips, analysisQueue, extractionQueue, faults, input, output>>

\* ------------------------------------------------------- download worker
\* the patterns of extractVideoId: the identifier follows one of these texts
extractVideoId(url) ==
    IF url[1] \in {"youtube.com/watch?v=", "youtu.be/", "youtube.com/embed/", "youtube.com/v/"}
    THEN url[2] ELSE NoId

\* the worker takes a waiting task; updateJobStatus(downloading, 10); the URL is
\* parsed; updateJobStatus(downloading, 30)
DownloadStart(t) ==
    /\ downloadQueue[t].state = "waiting"
    /\ Cardinality(Active(downloadQueue)) < DownloadConcurrency
    /\ LET task == downloadQueue[t]
       IN IF extractVideoId(task.youtubeUrl) = NoId
          THEN /\ jobs' = updateJobStatus(jobs, task.jobId, "downloading", 10)
               /\ downloadQueue' = [downloadQueue EXCEPT ![t] =
                      [task EXCEPT !.state = "active", !.pc = "catch"]]
          ELSE /\ jobs' = updateJobStatus(jobs, task.jobId, "downloading", 30)
               /\ downloadQueue' = [downloadQueue EXCEPT ![t] =
                      [task EXCEPT !.state = "active", !.pc = "fetch"]]
    /\ UNCHANGED <<videos, segments, clips, analysisQueue, extractionQueue, faults, input, output>>

\* yt-dlp runs, updateJobStatus(downloading, 60), the video file is uploaded,
\* updateJobStatus(downloading, 80)
DownloadFetch(t) ==
    /\ downloadQueue[t].state = "active" /\ downloadQueue[t].pc = "fetch"
    /\ \/ /\ Fault
          /\ downloadQueue' = [downloadQueue EXCEPT ![t].pc = "catch"]
          /\ UNCHANGED jobs
       \/ /\ jobs' = updateJobStatus(jobs, downloadQueue[t].jobId, "downloading", 80)
          /\ downloadQueue' = [downloadQueue EXCEPT ![t].pc = "create"]
          /\ UNCHANGED faults
    /\ UNCHANGED <<videos, segments, clips, analysisQueue, extractionQueue, input, output>>

\* prisma.video.create as it would be without the unique index on youtubeId
VideoCreateWithoutUniqueIndex(vs, youtubeId, duration) ==
    Append(vs, [youtubeId |-> youtubeId, duration |-> duration])

\* prisma.video.create under the unique index Video_youtubeId_key: the insert is
\* rejected (the rows stay as they are) when the youtubeId is taken
VideoCreate(vs, youtubeId, duration) ==
    IF \E v \in 1..Len(vs) : vs[v].youtubeId = youtubeId
    THEN vs
    ELSE Append(vs, [youtubeId |-> youtubeId, duration |-> duration])

\* the metadata is read and the Video inserted; on success the Job is linked to
\* it (prisma.job.update) and updateJobStatus(completed, 100) follows
DownloadCreate(t) ==
    /\ downloadQueue[t].state = "active" /\ downloadQueue[t].pc = "create"
    /\ LET task == downloadQueue[t]
       IN \E duration \in Durations :
            /\ videos' = VideoCreate(videos, extractVideoId(task.youtubeUrl), duration)
            /\ IF videos' = videos
               THEN /\ downloadQueue' = [downloadQueue EXCEPT ![t].pc = "catch"]
                    /\ UNCHANGED jobs
               ELSE /\ downloadQueue' = [downloadQueue EXCEPT ![t].pc = "enqueue",
                                                             ![t].video = Len(videos')]
                    /\ jobs' = updateJobStatus([jobs EXCEPT ![task.jobId].videoId = Len(videos')],
                                               task.jobId, "completed", 100)
    /\ UNCHANGED <<segments, clips, analysisQueue, extractionQueue, faults, input, output>>

\* addAnalysisJob({jobId, videoId}); the temp directory is removed and the
\* handler returns
DownloadEnqueue(t) ==
    /\ downloadQueue[t].state = "active" /\ downloadQueue[t].pc = "enqueue"
    /\ \/ /\ Fault
          /\ downloadQueue' = [downloadQueue EXCEPT ![t].pc = "catch"]
          /\ UNCHANGED analysisQueue
       \/ /\ analysisQueue' = Append(analysisQueue,
                [jobId |-> downloadQueue[t].jobId, videoId |-> downloadQueue[t].video,
                 state |-> "waiting", attemptsMade |-> 0, pc |-> "idle"] @@ AnalysisLocals)
          /\ downloadQueue' = [downloadQueue EXCEPT ![t] = TaskReturn(downloadQueue[t], DownloadLocals)]
          /\ UNCHANGED faults
    /\ UNCHANGED <<jobs, videos, segments, clips, extractionQueue, input, output>>

\* catch: updateJobStatus(failed, 0, 'Error: ...'), cleanup, rethrow
DownloadCatch(t) ==
    /\ downloadQueue[t].state = "active" /\ downloadQueue[t].pc = "catch"
    /\ jobs' = updateJobStatus(jobs, downloadQueue[t].jobId, "failed", 0)
    /\ downloadQueue' = [downloadQueue EXCEPT ![t] = TaskThrow(downloadQueue[t], DownloadAttempts,
                                                                    DownloadLocals)]
    /\ UNCHANGED <<videos, segments, clips, analysisQueue, extractionQueue, faults, input, output>>

\* ------------------------------------------------------- analysis worker
\* generateSlidingWindows(totalDuration), computed in hundredths of a second;
\* the windows pushed are floored to whole seconds
RECURSIVE SlidingWindowsFrom(_, _, _)
SlidingWindowsFrom(t, usableStart, usableEnd) ==
    IF t > usableEnd - MIN_CLIP * 100
    THEN <<>>
    ELSE LET start == Max(usableStart, t - (PREFERRED * 100) \div 2)
             end0 == Min(usableEnd, start + PREFERRED * 100)
             end1 == IF end0 - start < MIN_CLIP * 100
                     THEN Min(usableEnd, start + MIN_CLIP * 100) ELSE end0
             end == IF end1 - start > MAX_CLIP * 100 THEN start + MAX_CLIP * 100 ELSE end1
             rest == SlidingWindowsFrom(t + STEP * 100, usableStart, usableEnd)
         IN IF end - start >= MIN_CLIP * 100
            THEN <<[start |-> start \div 100, end |-> end \div 100]>> \o rest
            ELSE rest

\* generateSlidingWindows with the usable range ending skip_outro after the
\* end of the video instead of before it
generateSlidingWindowsPastTheEnd(totalDuration) ==
    LET skipIntro == Min(2500, totalDuration * 12)
        skipOutro == Min(2000, totalDuration * 8)
        usableStart == skipIntro
        usableEnd == totalDuration * 100 + skipOutro
    IN SlidingWindowsFrom(usableStart, usableStart, usableEnd)

\* generateSlidingWindows with neither intro nor outro skipped
generateSlidingWindowsWithoutSkips(totalDuration) ==
    SlidingWindowsFrom(0, 0, totalDuration * 100)

\* generateSlidingWindows with the centres starting at 0 instead of usableStart
generateSlidingWindowsFromZero(totalDuration) ==
    LET skipIntro == Min(2500, totalDuration * 12)
        skipOutro == Min(2000, totalDuration * 8)
        usableStart == skipIntro
        usableEnd == totalDuration * 100 - skipOutro
    IN SlidingWindowsFrom(0, usableStart, usableEnd)

generateSlidingWindows(totalDuration) ==
    LET skipIntro == Min(2500, totalDuration * 12)
        skipOutro == Min(2000, totalDuration * 8)
        usableStart == skipIntro
        usableEnd == totalDuration * 100 - skipOutro
    IN SlidingWindowsFrom(usableStart, usableStart, usableEnd)

\* the scored candidates of one run: the composite score and the confidence (in
\* thousandths) come from the external analyzers, here one of the Profiles;
\* no scene change and no transcript is reported
Analyzed(candidates, profile) ==
    [c \in 1..Len(candidates) |->
        [start |-> candidates[c].start, end |-> candidates[c].end,
         analysis |-> [compositeScore |-> IF profile = "flat" THEN 500 ELSE 500 + c,
                       confidence |-> 750],
         scenes |-> [sceneChanges |-> <<>>],
         speech |-> [transcripts |-> <<>>]]]

\* the comparator of rankSegments: a sorts before b
SortsBefore(a, b) ==
    IF b.analysis.compositeScore # a.analysis.compositeScore
    THEN b.analysis.compositeScore - a.analysis.compositeScore < 0
    ELSE b.analysis.confidence - a.analysis.confidence < 0

\* Array.prototype.sort is stable: x goes before the first element it sorts before
RECURSIVE InsertSorted(_, _)
InsertSorted(x, sorted) ==
    IF sorted = <<>> THEN <<x>>
    ELSE IF SortsBefore(x, Head(sorted)) THEN <<x>> \o sorted
    ELSE <<Head(sorted)>> \o InsertSorted(x, Tail(sorted))

RECURSIVE SortAnalyses(_)
SortAnalyses(analyses) ==
    IF analyses = <<>> THEN <<>>
    ELSE InsertSorted(analyses[Len(analyses)], SortAnalyses(SubSeq(analyses, 1, Len(analyses) - 1)))

\* the overlap test of rankSegments
hasOverlap(candidate, selected) ==
    \E k \in 1..Len(selected) :
        LET s == selected[k]
        IN \/ (candidate.start >= s.start /\ candidate.start < s.end)
           \/ (candidate.end > s.start /\ candidate.end <= s.end)
           \/ (candidate.start <= s.start /\ candidate.end >= s.end)

Abs(x) == IF x < 0 THEN 0 - x ELSE x

\* null, where a time is expected
NoBoundary == 0 - 1

\* the first of the scene changes nearest to targetTime, when it is within
\* maxDistance; sceneChanges holds the timestamps, in whole seconds
findNearestSceneBoundary(sceneChanges, targetTime, maxDistance) ==
    LET distance(i) == Abs(sceneChanges[i] - targetTime)
        nearest == { i \in 1..Len(sceneChanges) :
                        /\ distance(i) <= maxDistance
                        /\ \A j \in 1..Len(sceneChanges) : distance(j) >= distance(i) }
    IN IF nearest = {} THEN NoBoundary
       ELSE sceneChanges[CHOOSE i \in nearest : \A j \in nearest : i <= j]

\* the end after the speech step, in tenths of a second: end is the end of the
\* candidate in whole seconds, adjustedEnd the end after scene snapping, in
\* tenths; the times of the transcripts are in tenths
extendForSpeech(end, adjustedEnd, speech) ==
    LET endTimes == { speech.transcripts[t].endTime : t \in
                        { u \in 1..Len(speech.transcripts) :
                             speech.transcripts[u].endTime <= end * 10 + 20 } }
        lastTranscript == IF endTimes = {} THEN NoBoundary
                          ELSE CHOOSE e \in endTimes : \A f \in endTimes : f <= e
    IN IF lastTranscript # NoBoundary /\ Abs(lastTranscript - adjustedEnd) < 20
       THEN lastTranscript + 3
       ELSE adjustedEnd

\* start and end are in whole seconds, as are the times of the scene changes;
\* the times of the transcripts and the result are in tenths of a second.
\* Math.floor(x * 10) / 10 leaves the result as it is: the start is a whole
\* number of seconds less 0.5, and the end a whole number, the start plus 15,
\* or a transcript's end plus 0.3, which in doubles floors to itself for the
\* ends between 51.0 and 64.0 that the inputs are taken from
adjustSegmentBoundaries(start, end, scenes, speech) ==
    LET startSceneBoundary == findNearestSceneBoundary(scenes.sceneChanges, start, 3)
        endSceneBoundary == findNearestSceneBoundary(scenes.sceneChanges, end, 3)
        snappedStart == IF startSceneBoundary # NoBoundary THEN startSceneBoundary ELSE start
        snappedEnd == IF endSceneBoundary # NoBoundary THEN endSceneBoundary ELSE end
        adjustedStart == Max(0, snappedStart * 10 - 5)
        extendedEnd == extendForSpeech(end, snappedEnd * 10, speech)
        adjustedEnd == IF extendedEnd - adjustedStart < MIN_CLIP * 10
                       THEN adjustedStart + MIN_CLIP * 10
                       ELSE extendedEnd
    IN [start |-> adjustedStart, end |-> adjustedEnd]

\* the selection loop of rankSegments taking a candidate unless it overlaps the
\* window selected just before it
RECURSIVE SelectFromComparingLast(_, _, _)
SelectFromComparingLast(sorted, selected, topN) ==
    IF sorted = <<>> \/ Len(selected) >= topN
    THEN selected
    ELSE IF selected # <<>> /\ hasOverlap(Head(sorted), <<selected[Len(selected)]>>)
         THEN SelectFromComparingLast(Tail(sorted), selected, topN)
         ELSE LET candidate == Head(sorted)
                  adjusted == adjustSegmentBoundaries(candidate.start, candidate.end,
                                                      candidate.scenes, candidate.speech)
              IN SelectFromComparingLast(Tail(sorted),
                                         Append(selected,
                                                [adjustedStart |-> adjusted.start,
                                                 adjustedEnd |-> adjusted.end,
                                                 rank |-> Len(selected) + 1] @@ candidate),
                                         topN)

\* the selection loop of rankSegments: a selected window is the candidate with
\* adjustedStart, adjustedEnd and rank added
RECURSIVE SelectFrom(_, _, _)
SelectFrom(sorted, selected, topN) ==
    IF sorted = <<>> \/ Len(selected) >= topN
    THEN selected
    ELSE IF hasOverlap(Head(sorted), selected)
         THEN SelectFrom(Tail(sorted), selected, topN)
         ELSE LET candidate == Head(sorted)
                  adjusted == adjustSegmentBoundaries(candidate.start, candidate.end,
                                                      candidate.scenes, candidate.speech)
              IN SelectFrom(Tail(sorted),
                            Append(selected,
                                   [adjustedStart |-> adjusted.start,
                                    adjustedEnd |-> adjusted.end,
                                    rank |-> Len(selected) + 1] @@ candidate),
                            topN)

rankSegments(analyses, topN) == SelectFrom(SortAnalyses(analyses), <<>>, topN)

\* the worker takes a waiting task; updateJobStatus(analyzing, 10); the Video is
\* loaded; updateJobStatus(analyzing, 20)
AnalysisStart(t) ==
    /\ analysisQueue[t].state = "waiting"
    /\ Cardinality(Active(analysisQueue)) < AnalysisConcurrency
    /\ LET task == analysisQueue[t]
       IN IF task.videoId \notin 1..Len(videos)
          THEN /\ jobs' = updateJobStatus(jobs, task.jobId, "analyzing", 10)
               /\ analysisQueue' = [analysisQueue EXCEPT ![t] =
                      [task EXCEPT !.state = "active", !.pc = "catch"]]
          ELSE /\ jobs' = updateJobStatus(jobs, task.jobId, "analyzing", 20)
               /\ analysisQueue' = [analysisQueue EXCEPT ![t] =
                      [task EXCEPT !.state = "active", !.pc = "download",
                                   !.duration = videos[task.videoId].duration]]
    /\ UNCHANGED <<videos, segments, clips, downloadQueue, extractionQueue, faults, input, output>>

\* downloadFile; updateJobStatus(analyzing, 30); the candidates are generated;
\* updateJobStatus(analyzing, 40)
AnalysisDownload(t) ==
    /\ analysisQueue[t].state = "active" /\ analysisQueue[t].pc = "download"
    /\ \/ /\ Fault
          /\ analysisQueue' = [analysisQueue EXCEPT ![t].pc = "catch"]
          /\ UNCHANGED jobs
       \/ /\ jobs' = updateJobStatus(jobs, analysisQueue[t].jobId, "analyzing", 40)
          /\ analysisQueue' = [analysisQueue EXCEPT ![t].pc =
                IF generateSlidingWindows(analysisQueue[t].duration) = <<>>
                THEN "rank" ELSE "batch"]
          /\ UNCHANGED faults
    /\ UNCHANGED <<videos, segments, clips, downloadQueue, extractionQueue, input, output>>

\* the progress written after the batch that starts at candidate i
BatchProgress(i, length) == 40 + Round((i + BatchSize) * 40, length)

\* one batch of the loop: the analyzers run (their failures are replaced by the
\* fallback objects), then updateJobStatus(analyzing, progress)
AnalysisBatch(t) ==
    /\ analysisQueue[t].state = "active" /\ analysisQueue[t].pc = "batch"
    /\ LET task == analysisQueue[t]
           length == Len(generateSlidingWindows(task.duration))
       IN /\ jobs' = updateJobStatus(jobs, task.jobId, "analyzing", BatchProgress(task.i, length))
          /\ analysisQueue' = [analysisQueue EXCEPT ![t].i = task.i + BatchSize,
                ![t].pc = IF task.i + BatchSize < length THEN "batch" ELSE "rank"]
    /\ UNCHANGED <<videos, segments, clips, downloadQueue, extractionQueue, faults, input, output>>

\* updateJobStatus(analyzing, 85); rankSegments(analyzedSegments, 8)
AnalysisRank(t) ==
    /\ analysisQueue[t].state = "active" /\ analysisQueue[t].pc = "rank"
    /\ jobs' = updateJobStatus(jobs, analysisQueue[t].jobId, "analyzing", 85)
    /\ \E profile \in Profiles :
          LET ranked == rankSegments(Analyzed(generateSlidingWindows(analysisQueue[t].duration),
                                              profile), TopN)
          IN analysisQueue' = [analysisQueue EXCEPT ![t].ranked = ranked,
                                  ![t].pc = IF ranked = <<>> THEN "queue" ELSE "persist"]
    /\ UNCHANGED <<videos, segments, clips, downloadQueue, extractionQueue, faults, input, output>>

\* one prisma.segment.create of the loop over ranked
AnalysisPersist(t) ==
    /\ analysisQueue[t].state = "active" /\ analysisQueue[t].pc = "persist"
    /\ LET task == analysisQueue[t]
           r == task.ranked[Len(task.created) + 1]
       IN \/ /\ Fault
             /\ analysisQueue' = [analysisQueue EXCEPT ![t].pc = "catch"]
             /\ UNCHANGED segments
          \/ /\ segments' = Append(segments, [videoId |-> task.videoId, startTime |-> r.start,
                                              endTime |-> r.end, status |-> "detected",
                                              hasCaptions |-> FALSE, captionStyle |-> "null",
                                              captionData |-> "null"])
             /\ analysisQueue' = [analysisQueue EXCEPT
                    ![t].created = Append(task.created, Len(segments) + 1),
                    ![t].pc = IF Len(task.created) + 1 < Len(task.ranked) THEN "persist" ELSE "queue"]
             /\ UNCHANGED faults
    /\ UNCHANGED <<jobs, videos, clips, downloadQueue, extractionQueue, input, output>>

\* updateJobStatus(analyzing, 95)
AnalysisQueue(t) ==
    /\ analysisQueue[t].state = "active" /\ analysisQueue[t].pc = "queue"
    /\ jobs' = updateJobStatus(jobs, analysisQueue[t].jobId, "analyzing", 95)
    /\ analysisQueue' = [analysisQueue EXCEPT ![t].pc =
          IF analysisQueue[t].created = <<>> THEN "final" ELSE "enqueue"]
    /\ UNCHANGED <<videos, segments, clips, downloadQueue, extractionQueue, faults, input, output>>

\* one extractionQueue.add of the loop over createdSegments
AnalysisEnqueue(t) ==
    /\ analysisQueue[t].state = "active" /\ analysisQueue[t].pc = "enqueue"
    /\ LET task == analysisQueue[t]
           seg == task.created[task.k + 1]
       IN \/ /\ Fault
             /\ analysisQueue' = [analysisQueue EXCEPT ![t].pc = "catch"]
             /\ UNCHANGED extractionQueue
          \/ /\ extractionQueue' = Append(extractionQueue,
                    [jobId |-> task.jobId, videoId |-> task.videoId, segmentId |-> seg,
                     start |-> segments[seg].startTime, end |-> segments[seg].endTime,
                     state |-> "waiting", attemptsMade |-> 0, pc |-> "idle"]
                    @@ ExtractionLocals)
             /\ analysisQueue' = [analysisQueue EXCEPT ![t].k = task.k + 1,
                    ![t].pc = IF task.k + 1 < Len(task.created) THEN "enqueue" ELSE "final"]
             /\ UNCHANGED faults
    /\ UNCHANGED <<jobs, videos, segments, clips, downloadQueue, input, output>>

\* updateJobStatus(completed, 100), then the handler returns
AnalysisFinal(t) ==
    /\ analysisQueue[t].state = "active" /\ analysisQueue[t].pc = "final"
    /\ jobs' = updateJobStatus(jobs, analysisQueue[t].jobId, "completed", 100)
    /\ analysisQueue' = [analysisQueue EXCEPT ![t] = TaskReturn(analysisQueue[t], AnalysisLocals)]
    /\ UNCHANGED <<videos, segments, clips, downloadQueue, extractionQueue, faults, input, output>>

\* catch: updateJobStatus(failed, 0, message), rethrow
AnalysisCatch(t) ==
    /\ analysisQueue[t].state = "active" /\ analysisQueue[t].pc = "catch"
    /\ jobs' = updateJobStatus(jobs, analysisQueue[t].jobId, "failed", 0)
    /\ analysisQueue' = [analysisQueue EXCEPT ![t] = TaskThrow(analysisQueue[t], AnalysisAttempts,
                                                                    AnalysisLocals)]
    /\ UNCHANGED <<videos, segments, clips, downloadQueue, extractionQueue, faults, input, output>>

\* ----------------------------------------------------- extraction worker
\* the worker takes a waiting task; updateSegmentStatus(extracting); the Segment
\* and its Video are loaded
ExtractionStart(t) ==
    /\ extractionQueue[t].state = "waiting"
    /\ Cardinality(Active(extractionQueue)) < ExtractionConcurrency
    /\ LET task == extractionQueue[t]
       IN IF task.segmentId \notin 1..Len(segments)
          THEN /\ extractionQueue' = [extractionQueue EXCEPT ![t] =
                      [task EXCEPT !.state = "active", !.pc = "catch"]]
               /\ UNCHANGED segments
          ELSE /\ segments' = [segments EXCEPT ![task.segmentId].status = "extracting"]
               /\ extractionQueue' = [extractionQueue EXCEPT ![t] =
                      [task EXCEPT !.state = "active", !.pc = "work"]]
    /\ UNCHANGED <<jobs, videos, clips, downloadQueue, analysisQueue, faults, input, output>>

\* prisma.clip.create: Clip_segmentId_idx is a plain index, the insert always succeeds
ClipCreate(cs, segmentId, videoId) ==
    Append(cs, [segmentId |-> segmentId, videoId |-> videoId])

\* how the caption block of the handler ends: "burnt" with captionData set (the
\* captions were burnt in, as ASS or as SRT), "empty" with the plain clip
\* (generateViralCaptions returned no caption: nothing was said, it caught its
\* own error, or captions are switched off), "failed" with the plain clip (an
\* error reached the catch of the block: both burn-ins failed, a file write failed)
CaptionOutcomes == {"burnt", "empty"}

\* the handler as it would be with the caption block outside any try: a failure
\* in it reaches the handler's catch
ExtractionWorkCaptionsFatal(t) ==
    /\ extractionQueue[t].state = "active" /\ extractionQueue[t].pc = "work"
    /\ \/ /\ Fault
          /\ extractionQueue' = [extractionQueue EXCEPT ![t].pc = "catch"]
       \/ /\ Fault
          /\ extractionQueue' = [extractionQueue EXCEPT ![t].pc = "catch",
                                                        ![t].captions = "failed"]
       \/ /\ \E outcome \in CaptionOutcomes :
                extractionQueue' = [extractionQueue EXCEPT ![t].pc = "thumbnail",
                                                           ![t].captions = outcome]
          /\ UNCHANGED faults
    /\ UNCHANGED <<jobs, videos, segments, clips, downloadQueue, analysisQueue, input, output>>

\* the source is downloaded and the clip cut; then the caption block, which
\* catches its own failures
ExtractionWork(t) ==
    /\ extractionQueue[t].state = "active" /\ extractionQueue[t].pc = "work"
    /\ \/ /\ Fault
          /\ extractionQueue' = [extractionQueue EXCEPT ![t].pc = "catch"]
       \/ /\ Fault
          /\ extractionQueue' = [extractionQueue EXCEPT ![t].pc = "thumbnail",
                                                        ![t].captions = "failed"]
       \/ /\ \E outcome \in CaptionOutcomes :
                extractionQueue' = [extractionQueue EXCEPT ![t].pc = "thumbnail",
                                                           ![t].captions = outcome]
          /\ UNCHANGED faults
    /\ UNCHANGED <<jobs, videos, segments, clips, downloadQueue, analysisQueue, input, output>>

\* generateThumbnail(finalClipPath, thumbnailPath): ffprobe, then ffmpeg
ExtractionThumbnail(t) ==
    /\ extractionQueue[t].state = "active" /\ extractionQueue[t].pc = "thumbnail"
    /\ \/ /\ Fault
          /\ extractionQueue' = [extractionQueue EXCEPT ![t].pc = "catch"]
       \/ /\ extractionQueue' = [extractionQueue EXCEPT ![t].pc = "upload"]
          /\ UNCHANGED faults
    /\ UNCHANGED <<jobs, videos, segments, clips, downloadQueue, analysisQueue, input, output>>

\* the handler as it would be if it updated the Segment without having inserted
\* the Clip row
ExtractionUploadWithoutClip(t) ==
    /\ extractionQueue[t].state = "active" /\ extractionQueue[t].pc = "upload"
    /\ \/ /\ Fault
          /\ extractionQueue' = [extractionQueue EXCEPT ![t].pc = "catch"]
       \/ /\ extractionQueue' = [extractionQueue EXCEPT ![t].pc = "segment"]
          /\ UNCHANGED faults
    /\ UNCHANGED <<jobs, videos, segments, clips, downloadQueue, analysisQueue, input, output>>

\* clip and thumbnail are uploaded; then the Clip row is inserted
ExtractionUpload(t) ==
    /\ extractionQueue[t].state = "active" /\ extractionQueue[t].pc = "upload"
    /\ \/ /\ Fault
          /\ extractionQueue' = [extractionQueue EXCEPT ![t].pc = "catch"]
          /\ UNCHANGED clips
       \/ /\ clips' = ClipCreate(clips, extractionQueue[t].segmentId,
                                 segments[extractionQueue[t].segmentId].videoId)
          /\ extractionQueue' = [extractionQueue EXCEPT ![t].pc = "segment"]
          /\ UNCHANGED faults
    /\ UNCHANGED <<jobs, videos, segments, downloadQueue, analysisQueue, input, output>>

\* prisma.segment.update(status: extracted, hasCaptions, captionStyle,
\* captionData); captionData is not read after it
ExtractionSegment(t) ==
    /\ extractionQueue[t].state = "active" /\ extractionQueue[t].pc = "segment"
    /\ \/ /\ Fault
          /\ extractionQueue' = [extractionQueue EXCEPT ![t].pc = "catch"]
          /\ UNCHANGED segments
       \/ /\ segments' = [segments EXCEPT
                ![extractionQueue[t].segmentId].status = "extracted",
                ![extractionQueue[t].segmentId].hasCaptions =
                    (extractionQueue[t].captions = "burnt"),
                ![extractionQueue[t].segmentId].captionStyle =
                    IF extractionQueue[t].captions = "burnt" THEN "viral" ELSE "null",
                ![extractionQueue[t].segmentId].captionData =
                    IF extractionQueue[t].captions = "burnt" THEN "captions" ELSE "null"]
          /\ extractionQueue' = [extractionQueue EXCEPT ![t].pc = "progressRead",
                                                        ![t].captions = "notRun"]
          /\ UNCHANGED faults
    /\ UNCHANGED <<jobs, videos, clips, downloadQueue, analysisQueue, input, output>>

\* job.video.segments as prisma.job.findUnique returns them
SegmentsOf(videoId) == { s \in 1..Len(segments) : segments[s].videoId = videoId }

\* updateJobProgress, the read: the Job with the Segments of its Video
ExtractionProgressRead(t) ==
    /\ extractionQueue[t].state = "active" /\ extractionQueue[t].pc = "progressRead"
    /\ LET task == extractionQueue[t]
           video == jobs[task.jobId].videoId
       IN extractionQueue' = [extractionQueue EXCEPT ![t] =
             IF video = 0
             THEN TaskReturn(task, ExtractionLocals)
             ELSE [task EXCEPT !.pc = "progressWrite",
                       !.total = Cardinality(SegmentsOf(video)),
                       !.extracted = Cardinality({ s \in SegmentsOf(video) :
                                                      segments[s].status = "extracted" })]]
    /\ UNCHANGED <<jobs, videos, segments, clips, downloadQueue, analysisQueue, faults, input, output>>

\* the progress updateJobProgress computes from the counts it read
ExtractionProgress(extracted, total) ==
    IF total > 0 THEN Round(extracted * 100, total) ELSE 0

\* updateJobProgress, the write: prisma.job.update(progress, currentStep); then
\* the handler returns
ExtractionProgressWrite(t) ==
    /\ extractionQueue[t].state = "active" /\ extractionQueue[t].pc = "progressWrite"
    /\ LET task == extractionQueue[t]
       IN /\ jobs' = [jobs EXCEPT ![task.jobId].progress =
                         ExtractionProgress(task.extracted, task.total)]
          /\ extractionQueue' = [extractionQueue EXCEPT ![t] = TaskReturn(task, ExtractionLocals)]
    /\ UNCHANGED <<videos, segments, clips, downloadQueue, analysisQueue, faults, input, output>>

\* the catch block as it would be if it also reported the Job failed, as the
\* catch blocks of the other two workers do
ExtractionCatchFailingTheJob(t) ==
    /\ extractionQueue[t].state = "active" /\ extractionQueue[t].pc = "catch"
    /\ LET task == extractionQueue[t]
       IN /\ segments' = IF task.segmentId \in 1..Len(segments)
                         THEN [segments EXCEPT ![task.segmentId].status = "failed"]
                         ELSE segments
          /\ jobs' = updateJobStatus(jobs, task.jobId, "failed", 0)
          /\ extractionQueue' = [extractionQueue EXCEPT ![t] =
                                    TaskThrow(task, ExtractionAttempts, ExtractionLocals)]
    /\ UNCHANGED <<videos, clips, downloadQueue, analysisQueue, faults, input, output>>

\* catch: prisma.segment.update(status: failed), rethrow
ExtractionCatch(t) ==
    /\ extractionQueue[t].state = "active" /\ extractionQueue[t].pc = "catch"
    /\ LET task == extractionQueue[t]
       IN /\ segments' = IF task.segmentId \in 1..Len(segments)
                         THEN [segments EXCEPT ![task.segmentId].status = "failed"]
                         ELSE segments
          /\ extractionQueue' = [extractionQueue EXCEPT ![t] =
                                    TaskThrow(task, ExtractionAttempts, ExtractionLocals)]
    /\ UNCHANGED <<jobs, videos, clips, downloadQueue, analysisQueue, faults, input, output>>

Init ==
    /\ jobs = <<>>
    /\ videos = <<>>
    /\ segments = <<>>
    /\ clips = <<>>
    /\ downloadQueue = <<>>
    /\ analysisQueue = <<>>
    /\ extractionQueue = <<>>
    /\ faults = MaxFaults
    /\ input = [fn |-> "none"]
    /\ output = <<>>

Next ==
    \/ \E url \in Urls : Submit(url)
    \/ \E t \in 1..Len(downloadQueue) : DownloadStart(t)
    \/ \E t \in 1..Len(downloadQueue) : DownloadFetch(t)
    \/ \E t \in 1..Len(downloadQueue) : DownloadCreate(t)
    \/ \E t \in 1..Len(downloadQueue) : DownloadEnqueue(t)
    \/ \E t \in 1..Len(downloadQueue) : DownloadCatch(t)
    \/ \E t \in 1..Len(analysisQueue) : AnalysisStart(t)
    \/ \E t \in 1..Len(analysisQueue) : AnalysisDownload(t)
    \/ \E t \in 1..Len(analysisQueue) : AnalysisBatch(t)
    \/ \E t \in 1..Len(analysisQueue) : AnalysisRank(t)
    \/ \E t \in 1..Len(analysisQueue) : AnalysisPersist(t)
    \/ \E t \in 1..Len(analysisQueue) : AnalysisQueue(t)
    \/ \E t \in 1..Len(analysisQueue) : AnalysisEnqueue(t)
    \/ \E t \in 1..Len(analysisQueue) : AnalysisFinal(t)
    \/ \E t \in 1..Len(analysisQueue) : AnalysisCatch(t)
    \/ \E t \in 1..Len(extractionQueue) : ExtractionStart(t)
    \/ \E t \in 1..Len(extractionQueue) : ExtractionWork(t)
    \/ \E t \in 1..Len(extractionQueue) : ExtractionThumbnail(t)
    \/ \E t \in 1..Len(extractionQueue) : ExtractionUpload(t)
    \/ \E t \in 1..Len(extractionQueue) : ExtractionSegment(t)
    \/ \E t \in 1..Len(extractionQueue) : ExtractionProgressRead(t)
    \/ \E t \in 1..Len(extractionQueue) : ExtractionProgressWrite(t)
    \/ \E t \in 1..Len(extractionQueue) : ExtractionCatch(t)

Spec == Init /\ [][Next]_vars

\* the download stage on its own: the API and the download worker
NextDownload ==
    \/ \E url \in Urls : Submit(url)
    \/ \E t \in 1..Len(downloadQueue) : DownloadStart(t)
    \/ \E t \in 1..Len(downloadQueue) : DownloadFetch(t)
    \/ \E t \in 1..Len(downloadQueue) : DownloadCreate(t)
    \/ \E t \in 1..Len(downloadQueue) : DownloadEnqueue(t)
    \/ \E t \in 1..Len(downloadQueue) : DownloadCatch(t)

SpecDownload == Init /\ [][NextDownload]_vars

\* ------------------------------------------- the analysis stage on its own
\* the rows a download run without failures leaves for a source of the given
\* duration: the Job linked to its Video and reported completed, the download
\* task returned
DownloadedJob == [youtubeUrl |-> <<"youtube.com/watch?v=", "A">>, videoId |-> 1,
                  status |-> "completed", progress |-> 100,
                  completedAt |-> FALSE, errorMessage |-> FALSE]

DownloadedTask == [jobId |-> 1, youtubeUrl |-> <<"youtube.com/watch?v=", "A">>,
                   state |-> "completed", attemptsMade |-> 1, pc |-> "idle"] @@ DownloadLocals

\* the analysis task is waiting for a Video of any duration up to MaxDuration
InitAnalysis ==
    /\ jobs = <<DownloadedJob>>
    /\ \E duration \in 0..MaxDuration :
          videos = <<[youtubeId |-> "A", duration |-> duration]>>
    /\ segments = <<>>
    /\ clips = <<>>
    /\ downloadQueue = <<DownloadedTask>>
    /\ analysisQueue = <<[jobId |-> 1, videoId |-> 1, state |-> "waiting",
                          attemptsMade |-> 0, pc |-> "idle"] @@ AnalysisLocals>>
    /\ extractionQueue = <<>>
    /\ faults = MaxFaults
    /\ input = [fn |-> "none"]
    /\ output = <<>>

NextAnalysis ==
    \/ \E t \in 1..Len(analysisQueue) : AnalysisStart(t)
    \/ \E t \in 1..Len(analysisQueue) : AnalysisDownload(t)
    \/ \E t \in 1..Len(analysisQueue) : AnalysisBatch(t)
    \/ \E t \in 1..Len(analysisQueue) : AnalysisRank(t)
    \/ \E t \in 1..Len(analysisQueue) : AnalysisPersist(t)
    \/ \E t \in 1..Len(analysisQueue) : AnalysisQueue(t)
    \/ \E t \in 1..Len(analysisQueue) : AnalysisEnqueue(t)
    \/ \E t \in 1..Len(analysisQueue) : AnalysisFinal(t)
    \/ \E t \in 1..Len(analysisQueue) : AnalysisCatch(t)

SpecAnalysis == InitAnalysis /\ [][NextAnalysis]_vars

\* ----------------------------------------- the extraction stage on its own
\* the rows an analysis run without failures leaves: one Segment and one waiting
\* extraction task per selected candidate, the Job reported completed.  Every
\* attempt of one extraction task can fail.
InitExtraction ==
    \E duration \in Durations, profile \in Profiles :
        LET ranked == rankSegments(Analyzed(generateSlidingWindows(duration), profile), TopN)
        IN /\ ranked # <<>>
           /\ jobs = <<DownloadedJob>>
           /\ videos = <<[youtubeId |-> "A", duration |-> duration]>>
           /\ segments = [k \in 1..Len(ranked) |->
                            [videoId |-> 1, startTime |-> ranked[k].start,
                             endTime |-> ranked[k].end, status |-> "detected",
                             hasCaptions |-> FALSE, captionStyle |-> "null",
                                              captionData |-> "null"]]
           /\ clips = <<>>
           /\ downloadQueue = <<DownloadedTask>>
           /\ analysisQueue = <<[jobId |-> 1, videoId |-> 1, state |-> "completed",
                                 attemptsMade |-> 1, pc |-> "idle"] @@ AnalysisLocals>>
           /\ extractionQueue = [k \in 1..Len(ranked) |->
                                   [jobId |-> 1, videoId |-> 1, segmentId |-> k,
                                    start |-> ranked[k].start, end |-> ranked[k].end,
                                    state |-> "waiting", attemptsMade |-> 0, pc |-> "idle"]
                                   @@ ExtractionLocals]
           /\ faults = ExtractionAttempts
           /\ input = [fn |-> "none"]
           /\ output = <<>>

NextExtraction ==
    \/ \E t \in 1..Len(extractionQueue) : ExtractionStart(t)
    \/ \E t \in 1..Len(extractionQueue) : ExtractionWork(t)
    \/ \E t \in 1..Len(extractionQueue) : ExtractionThumbnail(t)
    \/ \E t \in 1..Len(extractionQueue) : ExtractionUpload(t)
    \/ \E t \in 1..Len(extractionQueue) : ExtractionSegment(t)
    \/ \E t \in 1..Len(extractionQueue) : ExtractionProgressRead(t)
    \/ \E t \in 1..Len(extractionQueue) : ExtractionProgressWrite(t)
    \/ \E t \in 1..Len(extractionQueue) : ExtractionCatch(t)

SpecExtraction == InitExtraction /\ [][NextExtraction]_vars

\* ------------------------- analysis and extraction with a failing Job Store
\* the last updateJobStatus of the analysis handler when prisma.job.update
\* fails: updateJobStatus catches the error and logs it, the Job row keeps what
\* it had and the handler returns as if the write had been made
AnalysisFinalNotWritten(t) ==
    /\ analysisQueue[t].state = "active" /\ analysisQueue[t].pc = "final"
    /\ Fault
    /\ analysisQueue' = [analysisQueue EXCEPT ![t] = TaskReturn(analysisQueue[t], AnalysisLocals)]
    /\ UNCHANGED <<jobs, videos, segments, clips, downloadQueue, extractionQueue, input, output>>

NextStoreFault ==
    \/ NextAnalysis
    \/ NextExtraction
    \/ \E t \in 1..Len(analysisQueue) : AnalysisFinalNotWritten(t)

\* a Video has been downloaded, its analysis task waits
InitStoreFault ==
    /\ jobs = <<DownloadedJob>>
    /\ \E duration \in Durations :
          videos = <<[youtubeId |-> "A", duration |-> duration]>>
    /\ segments = <<>>
    /\ clips = <<>>
    /\ downloadQueue = <<DownloadedTask>>
    /\ analysisQueue = <<[jobId |-> 1, videoId |-> 1, state |-> "waiting",
                          attemptsMade |-> 0, pc |-> "idle"] @@ AnalysisLocals>>
    /\ extractionQueue = <<>>
    /\ faults = MaxFaults
    /\ input = [fn |-> "none"]
    /\ output = <<>>

SpecStoreFault == InitStoreFault /\ [][NextStoreFault]_vars

\* ------------------------------------- the extraction stage with re-delivery
\* the queue delivers at least once: the worker that runs a task stops at any
\* point of the handler (the process dies, or its lock on the task runs out)
\* and the task goes back to the queue as it was enqueued, to be run again from
\* the start.  A stop counts as one of the failures still to come.
ExtractionRedeliver(t) ==
    /\ extractionQueue[t].state = "active"
    /\ Fault
    /\ extractionQueue' = [extractionQueue EXCEPT ![t] =
           ExtractionLocals @@ [extractionQueue[t] EXCEPT !.state = "waiting", !.pc = "idle"]]
    /\ UNCHANGED <<jobs, videos, segments, clips, downloadQueue, analysisQueue, input, output>>

NextRedelivery ==
    \/ NextExtraction
    \/ \E t \in 1..Len(extractionQueue) : ExtractionRedeliver(t)

SpecRedelivery == InitExtraction /\ [][NextRedelivery]_vars

\* --------------------------------------------- the functions on their own
\* no Job has been submitted
NoRows ==
    /\ jobs = <<>>
    /\ videos = <<>>
    /\ segments = <<>>
    /\ clips = <<>>
    /\ downloadQueue = <<>>
    /\ analysisQueue = <<>>
    /\ extractionQueue = <<>>
    /\ faults = MaxFaults

\* generateSlidingWindows(totalDuration) for a whole number of seconds
InitWindows ==
    /\ NoRows
    /\ \E d \in 0..MaxDuration :
          input = [fn |-> "generateSlidingWindows", totalDuration |-> d]
    /\ output = <<>>

CallGenerateSlidingWindows ==
    /\ input.fn = "generateSlidingWindows"
    /\ output = <<>>
    /\ output' = <<generateSlidingWindows(input.totalDuration)>>
    /\ UNCHANGED <<jobs, videos, segments, clips, downloadQueue, analysisQueue,
                   extractionQueue, faults, input>>

SpecWindows == InitWindows /\ [][CallGenerateSlidingWindows]_vars

\* ------------------------------------------------------ retention analyzer
\* Scores are in thousandths.  The inputs are given at the grain that keeps the
\* arithmetic exact: energyScore in hundredths, volumes in whole dB, times in
\* whole seconds, the times of transcripts in tenths of a second,
\* sceneChangeRate in whole changes per minute, position in thousandths.  A
\* weighted sum is in 10^-5, after the position bonus in 10^-7, after the
\* duration bonus in 10^-9.
One == 1000
OneE9 == 1000000000

\* what the two patterns of detectHook answer on the texts used as inputs
QuestionTexts == {"what now"}
ExcitementTexts == {"no way"}

\* the inputs of calculateRetentionScore; the first of each set is what the
\* analyzer returns at its best, the fallback objects of the worker are among
\* the others
EnergyScores == {100, 52, 0}
VolumeVariances == {30, 18, 0}
LoudMoments == {<<1, 2, 4, 6, 8>>, <<5>>, <<>>}
SilencePeriods == {<<>>, <<[start |-> 0, end |-> 12]>>}
SceneChangeRates == {8, 0, 20}
Scenes == {<<0, 12>>, <<>>}
SpeechScores == {1000, 500, 0}
Transcripts == {<<[startTime |-> 10, endTime |-> 30, text |-> "what now"]>>, <<>>,
                <<[startTime |-> 50, endTime |-> 70, text |-> "no way"]>>,
                <<[startTime |-> 20, endTime |-> 40, text |-> "no way"]>>,
                <<[startTime |-> 10, endTime |-> 30, text |-> "so then"]>>}
Positions == {500, 0, 200, 300, 900}

\* what the patterns of detectViralPhrases answer on the texts used as inputs
ViralTexts == {"what now"}

\* the scene changes of a list of scenes, given by the times they start at:
\* every scene but the first starts at a scene change
sceneChangesOf(scenes) == IF scenes = <<>> THEN <<>> ELSE Tail(scenes)

\* totalWords and viralTriggers as analyzeTranscript derives them from the
\* transcripts; each text used as input has two words
totalWordsOf(transcripts) == 2 * Len(transcripts)
detectViralPhrases(transcripts) ==
    LET IsViral(t) == t.text \in ViralTexts
    IN SelectSeq(transcripts, IsViral)
SegmentDurations == {30, 14, 15, 61}

RECURSIVE totalSilence(_)
totalSilence(periods) ==
    IF periods = <<>> THEN 0
    ELSE (Head(periods).end - Head(periods).start) + totalSilence(Tail(periods))

\* scoreAudioEngagement: 0.4 * energyScore + 0.3 * min(1, variance / 20)
\* + 0.2 * min(1, loud moments / 5) - 0.1 * min(1, silence / 10), clamped
scoreAudioEngagement(analysis) ==
    LET score == analysis.energyScore * 4
                 + Min(20, analysis.volumeVariance) * 15
                 + Min(5, Len(analysis.loudMoments)) * 40
                 - Min(10, totalSilence(analysis.silencePeriods)) * 10
    IN Max(0, Min(One, score))

\* scoreVisualEngagement: 0.6 * max(0, 1 - |rate - 8| / 8) + 0.4 when there is
\* more than one scene, clamped
scoreVisualEngagement(analysis) ==
    LET rateDiff == IF analysis.sceneChangeRate >= 8 THEN analysis.sceneChangeRate - 8
                    ELSE 8 - analysis.sceneChangeRate
        score == Max(0, 8 - rateDiff) * 75
                 + (IF Len(analysis.scenes) > 1 THEN 400 ELSE 0)
    IN Max(0, Min(One, score))

\* detectHook without the test on the position of the segment in the video
detectHookAnywhere(speech, audio, position) ==
    LET earlyTranscripts == { t \in 1..Len(speech.transcripts) :
                                 speech.transcripts[t].startTime < 30 }
        hasQuestionHook == \E t \in earlyTranscripts :
                               speech.transcripts[t].text \in QuestionTexts
        hasExcitementHook == \E t \in earlyTranscripts :
                                 speech.transcripts[t].text \in ExcitementTexts
        hasAudioHook == \E m \in 1..Len(audio.loudMoments) : audio.loudMoments[m] < 3
    IN hasQuestionHook \/ hasExcitementHook \/ hasAudioHook

detectHook(speech, audio, position) ==
    LET earlyTranscripts == { t \in 1..Len(speech.transcripts) :
                                 speech.transcripts[t].startTime < 30 }
        hasQuestionHook == \E t \in earlyTranscripts :
                               speech.transcripts[t].text \in QuestionTexts
        hasExcitementHook == \E t \in earlyTranscripts :
                                 speech.transcripts[t].text \in ExcitementTexts
        hasAudioHook == \E m \in 1..Len(audio.loudMoments) : audio.loudMoments[m] < 3
        isEarlyInVideo == position < 300
    IN (hasQuestionHook \/ hasExcitementHook \/ hasAudioHook) /\ isEarlyInVideo

\* applyPositionBonus giving no bonus and no penalty
applyPositionBonusNone(score, position) == score * 100

\* score * 1.05, score * 0.95 or score, as a multiplier in hundredths
applyPositionBonus(score, position) ==
    IF position >= 300 /\ position <= 700 THEN score * 105
    ELSE IF position < 150 \/ position > 850 THEN score * 95
    ELSE score * 100

\* score * 1.03, score * 0.95 or score, as a multiplier in hundredths
applyDurationBonus(score, duration) ==
    IF duration >= 30 /\ duration <= 45 THEN score * 103
    ELSE IF duration < 15 \/ duration > 60 THEN score * 95
    ELSE score * 100

\* calculateConfidence, in thousandths
calculateConfidence(audio, scene, speech) ==
    Min(One, 500 + (IF Len(audio.loudMoments) > 0 THEN 150 ELSE 0)
                 + (IF Len(audio.silencePeriods) >= 0 THEN 100 ELSE 0)
                 + (IF Len(scene.sceneChanges) > 0 THEN 150 ELSE 0)
                 + (IF speech.totalWords > 0 THEN 200 ELSE 0)
                 + (IF Len(speech.viralTriggers) > 0 THEN 100 ELSE 0))

\* generateReason: the sentence is given as the words before the dominant
\* factor, the factor, and the words after it (the emoji that ends it is left
\* out); compositeScore is in 10^-9
generateReason(audioScore, visualScore, speechScore, compositeScore) ==
    LET factor == IF audioScore >= visualScore /\ audioScore >= speechScore THEN "audio"
                  ELSE IF visualScore >= speechScore THEN "visual"
                  ELSE "speech"
    IN IF compositeScore >= 950000000
       THEN <<"Peak engagement detected - ", factor, " signals are exceptional">>
       ELSE IF compositeScore >= 900000000
       THEN <<"High retention moment - strong ", factor, " performance">>
       ELSE IF compositeScore >= 850000000
       THEN <<"Elevated engagement - ", factor, " indicators are very good">>
       ELSE IF compositeScore >= 800000000
       THEN <<"Above-average retention - good ", factor, " signals">>
       ELSE IF compositeScore >= 750000000
       THEN <<"Solid engagement - ", factor, " shows promise">>
       ELSE IF compositeScore >= 700000000
       THEN <<"Moderate retention - adequate ", factor, "">>
       ELSE <<"Standard segment - baseline ", factor, "">>

\* what calculateRetentionScore appends to the reason of a segment with a hook
HookSuffix == " + strong opening hook detected!"

\* calculateRetentionScore returning the composite score as computed, without
\* Math.max(0, Math.min(1, ...))
calculateRetentionScoreUnclamped(audioAnalysis, sceneAnalysis, speechAnalysis, segmentMetadata) ==
    LET audioScore == scoreAudioEngagement(audioAnalysis)
        visualScore == scoreVisualEngagement(sceneAnalysis)
        hasStrongHook == detectHook(speechAnalysis, audioAnalysis, segmentMetadata.position)
        speechScore == IF hasStrongHook THEN Min(One, speechAnalysis.speechScore + 250)
                       ELSE speechAnalysis.speechScore
        weighted == audioScore * 40 + speechScore * 35 + visualScore * 25
        compositeScore == applyDurationBonus(applyPositionBonus(weighted, segmentMetadata.position),
                                             segmentMetadata.duration)
    IN [compositeScore |-> compositeScore,
        audioScore |-> audioScore, visualScore |-> visualScore, speechScore |-> speechScore,
        confidence |-> calculateConfidence(audioAnalysis, sceneAnalysis, speechAnalysis),
        signals |-> [audio |-> audioScore, visual |-> visualScore, speech |-> speechScore,
                     engagement |-> compositeScore],
        reason |-> IF hasStrongHook
                   THEN Append(generateReason(audioScore, visualScore, speechScore,
                                              compositeScore), HookSuffix)
                   ELSE generateReason(audioScore, visualScore, speechScore, compositeScore)]

\* calculateRetentionScore; compositeScore and signals.engagement are in 10^-9,
\* the other scores and the confidence in thousandths
calculateRetentionScore(audioAnalysis, sceneAnalysis, speechAnalysis, segmentMetadata) ==
    LET audioScore == scoreAudioEngagement(audioAnalysis)
        visualScore == scoreVisualEngagement(sceneAnalysis)
        hasStrongHook == detectHook(speechAnalysis, audioAnalysis, segmentMetadata.position)
        speechScore == IF hasStrongHook THEN Min(One, speechAnalysis.speechScore + 250)
                       ELSE speechAnalysis.speechScore
        weighted == audioScore * 40 + speechScore * 35 + visualScore * 25
        compositeScore == applyDurationBonus(applyPositionBonus(weighted, segmentMetadata.position),
                                             segmentMetadata.duration)
    IN [compositeScore |-> Max(0, Min(OneE9, compositeScore)),
        audioScore |-> audioScore, visualScore |-> visualScore, speechScore |-> speechScore,
        confidence |-> calculateConfidence(audioAnalysis, sceneAnalysis, speechAnalysis),
        signals |-> [audio |-> audioScore, visual |-> visualScore, speech |-> speechScore,
                     engagement |-> compositeScore],
        reason |-> IF hasStrongHook
                   THEN Append(generateReason(audioScore, visualScore, speechScore,
                                              compositeScore), HookSuffix)
                   ELSE generateReason(audioScore, visualScore, speechScore, compositeScore)]

InitRetention ==
    /\ NoRows
    /\ \E e \in EnergyScores, v \in VolumeVariances, l \in LoudMoments, q \in SilencePeriods,
          r \in SceneChangeRates, c \in Scenes, s \in SpeechScores, t \in Transcripts,
          p \in Positions, d \in SegmentDurations :
          input = [fn |-> "calculateRetentionScore",
                   audioAnalysis |-> [energyScore |-> e, volumeVariance |-> v,
                                      loudMoments |-> l, silencePeriods |-> q],
                   sceneAnalysis |-> [sceneChangeRate |-> r, scenes |-> c,
                                      sceneChanges |-> sceneChangesOf(c)],
                   speechAnalysis |-> [speechScore |-> s, transcripts |-> t,
                                       totalWords |-> totalWordsOf(t),
                                       viralTriggers |-> detectViralPhrases(t)],
                   segmentMetadata |-> [position |-> p, duration |-> d]]
    /\ output = <<>>

CallCalculateRetentionScore ==
    /\ input.fn = "calculateRetentionScore"
    /\ output = <<>>
    /\ output' = <<calculateRetentionScore(input.audioAnalysis, input.sceneAnalysis,
                                           input.speechAnalysis, input.segmentMetadata)>>
    /\ UNCHANGED <<jobs, videos, segments, clips, downloadQueue, analysisQueue,
                   extractionQueue, faults, input>>

SpecRetention == InitRetention /\ [][CallCalculateRetentionScore]_vars

\* --------------------------------------------- scoring and selection
\* Steps 4 to 6 of the analysis handler as a function of the duration of the
\* Video and of what the three analyzers return.
SelectionDurations == {42, 100, 300}

\* what analyzeAudio, detectScenes and analyzeSpeech return for a candidate: all
\* three failing (the fallback objects of the worker), a silent still picture,
\* the fallback with a loud moment in the first second, and a lively segment
FallbackSignals ==
    [audio |-> [energyScore |-> 52, volumeVariance |-> 18, loudMoments |-> <<5>>,
                silencePeriods |-> <<>>],
     scenes |-> [sceneChangeRate |-> 0, scenes |-> <<>>, sceneChanges |-> <<>>],
     speech |-> [speechScore |-> 500, transcripts |-> <<>>, totalWords |-> 0,
                 viralTriggers |-> <<>>]]
SilentSignals ==
    [audio |-> [energyScore |-> 0, volumeVariance |-> 0, loudMoments |-> <<>>,
                silencePeriods |-> <<>>],
     scenes |-> [sceneChangeRate |-> 0, scenes |-> <<25>>, sceneChanges |-> <<>>],
     speech |-> [speechScore |-> 0, transcripts |-> <<>>, totalWords |-> 0,
                 viralTriggers |-> <<>>]]
HookedSignals ==
    [FallbackSignals EXCEPT !.audio.loudMoments = <<1>>]
LivelySignals ==
    [audio |-> [energyScore |-> 100, volumeVariance |-> 30,
                loudMoments |-> <<1, 2, 4, 6, 8>>, silencePeriods |-> <<>>],
     scenes |-> [sceneChangeRate |-> 8, scenes |-> <<25, 27, 57>>,
                 sceneChanges |-> <<27, 57>>],
     speech |-> [speechScore |-> 1000,
                 transcripts |-> <<[startTime |-> 10, endTime |-> 560, text |-> "so then"]>>,
                 totalWords |-> 2, viralTriggers |-> <<>>]]
Signals == {FallbackSignals, SilentSignals, HookedSignals, LivelySignals}

\* Math.random(), in thousandths
RandomDraws == {0, 500}

\* seg.start / duration in thousandths, rounded away from 1/2: the comparisons
\* of the code with 0.15 and 0.3 (below 1/2) and with 0.7 and 0.85 (above it)
\* come out as they do on the quotient itself
Position(start, duration) ==
    IF 2 * start < duration THEN (start * 1000) \div duration
    ELSE (start * 1000 + duration - 1) \div duration

\* the batch loop: every candidate with its retention analysis; candidate c is
\* given the analyzer results signals[c], taken cyclically
analyzedSegments(duration, signals) ==
    LET candidates == generateSlidingWindows(duration)
    IN [c \in 1..Len(candidates) |->
          LET seg == candidates[c]
              results == signals[((c - 1) % Len(signals)) + 1]
          IN [start |-> seg.start, end |-> seg.end, duration |-> seg.end - seg.start,
              analysis |-> calculateRetentionScore(results.audio, results.scenes, results.speech,
                              [position |-> Position(seg.start, duration),
                               duration |-> seg.end - seg.start,
                               totalDuration |-> duration]),
              audio |-> results.audio, scenes |-> results.scenes, speech |-> results.speech]]

\* the values of the Segment row the handler creates for a ranked window;
\* random is the row's Math.random().  compositeScore * 0.92 is exact in 10^-9
\* because every composite score is a multiple of 25 * 10^-9.
createdSegment(r, random) ==
    [startTime |-> r.start,
     endTime |-> r.end,
     duration |-> r.end - r.start,
     compositeScore |-> r.analysis.compositeScore,
     ytRetention |-> Min(OneE9, (r.analysis.compositeScore \div 25) * 23 + random * 30000),
     signals |-> r.analysis.signals,
     reason |-> r.analysis.reason,
     status |-> "detected"]

\* the analyzer results of the candidates: the same on every candidate, or two
\* results in turn
SignalInputs ==
    { <<results>> : results \in Signals }
    \cup { <<LivelySignals, FallbackSignals>>, <<SilentSignals, HookedSignals>> }

InitSelection ==
    /\ NoRows
    /\ \E duration \in SelectionDurations, signals \in SignalInputs :
          input = [fn |-> "selection", totalDuration |-> duration, signals |-> signals]
    /\ output = <<>>

\* a run scores and ranks the candidates; output[1] is the run under way, and
\* output[2] the run before it, if the handler ran on the Video before
RunSelection ==
    /\ input.fn = "selection"
    /\ \/ output = <<>>
       \/ Len(output) = 1 /\ Len(output[1].segments) = Len(output[1].ranked)
    /\ output' = <<[ranked |-> rankSegments(analyzedSegments(input.totalDuration,
                                                              input.signals), TopN),
                    segments |-> <<>>]>> \o output
    /\ UNCHANGED <<jobs, videos, segments, clips, downloadQueue, analysisQueue,
                   extractionQueue, faults, input>>

\* one prisma.segment.create of the loop over ranked
PersistSegment ==
    /\ input.fn = "selection"
    /\ output # <<>>
    /\ Len(output[1].segments) < Len(output[1].ranked)
    /\ \E random \in RandomDraws :
          output' = [output EXCEPT ![1].segments =
                        Append(@, createdSegment(output[1].ranked[Len(@) + 1], random))]
    /\ UNCHANGED <<jobs, videos, segments, clips, downloadQueue, analysisQueue,
                   extractionQueue, faults, input>>

NextSelection == RunSelection \/ PersistSegment

SpecSelection == InitSelection /\ [][NextSelection]_vars

\* ------------------------------------------------- boundary adjustment
\* adjustSegmentBoundaries on its own: a window of 30 seconds and one of 15,
\* scene changes 3 seconds before and after the end, and up to two transcripts
\* ending from 1.5 seconds before the end of the first window to 4 seconds
\* after it
AdjustWindows == {[start |-> 25, end |-> 55], [start |-> 41, end |-> 56]}
AdjustSceneChanges == {<<>>, <<52>>, <<58>>, <<27, 57>>}
TranscriptEnds == {535, 550, 560, 569, 570, 571, 590}
AdjustTranscripts ==
    LET Transcript(e) == [startTime |-> e - 20, endTime |-> e, text |-> "so then"]
    IN {<<>>} \cup { <<Transcript(e)>> : e \in TranscriptEnds }
       \cup { <<Transcript(e), Transcript(f)>> : e \in TranscriptEnds, f \in TranscriptEnds }

InitAdjust ==
    /\ NoRows
    /\ \E window \in AdjustWindows, changes \in AdjustSceneChanges,
          transcripts \in AdjustTranscripts :
          input = [fn |-> "adjustSegmentBoundaries",
                   start |-> window.start, end |-> window.end,
                   scenes |-> [sceneChanges |-> changes],
                   speech |-> [transcripts |-> transcripts]]
    /\ output = <<>>

CallAdjustSegmentBoundaries ==
    /\ input.fn = "adjustSegmentBoundaries"
    /\ output = <<>>
    /\ output' = <<adjustSegmentBoundaries(input.start, input.end, input.scenes, input.speech)>>
    /\ UNCHANGED <<jobs, videos, segments, clips, downloadQueue, analysisQueue,
                   extractionQueue, faults, input>>

SpecAdjust == InitAdjust /\ [][CallAdjustSegmentBoundaries]_vars

\* ------------------------------------------------------------- captions
\* groupIntoSegments (worker-extraction captions.ts).  Times are in hundredths
\* of a second.  A word is [word, start, end].
TARGET_WORDS == 3

\* /[,;.!?]/.test(word): the words of the inputs, and whether one of the five
\* marks occurs in them
Texts == {"so", "then,"}
HasPunctuation(word) == word \in {"then,"}

\* the CaptionSegment pushed for a group; text is the words joined by one space,
\* kept as the sequence of the joined parts
CaptionSegmentOf(currentGroup) ==
    [text |-> [k \in 1..Len(currentGroup) |-> currentGroup[k].word],
     start |-> currentGroup[1].start,
     end |-> currentGroup[Len(currentGroup)].end,
     words |-> currentGroup,
     style |-> "normal"]

\* shouldBreak, for the group with words[i] pushed
shouldBreak(words, i, currentGroup) ==
    /\ Len(currentGroup) >= TARGET_WORDS
    /\ \/ HasPunctuation(words[i].word)
       \/ (i < Len(words) /\ words[i + 1].start - words[i].end > 30)
       \/ Len(currentGroup) >= 5

\* the loop as it would be if the group left open at the last word were not pushed
RECURSIVE GroupFromWithoutRest(_, _, _, _)
GroupFromWithoutRest(words, i, captionSegments, currentGroup) ==
    IF i > Len(words) THEN captionSegments
    ELSE LET group == Append(currentGroup, words[i])
         IN IF shouldBreak(words, i, group)
            THEN GroupFromWithoutRest(words, i + 1,
                                      Append(captionSegments, CaptionSegmentOf(group)), <<>>)
            ELSE GroupFromWithoutRest(words, i + 1, captionSegments, group)

groupIntoSegmentsWithoutRest(words) == GroupFromWithoutRest(words, 1, <<>>, <<>>)

\* the for loop from index i on (1-based), with the segments pushed so far and
\* the group that is open
RECURSIVE GroupFrom(_, _, _, _)
GroupFrom(words, i, captionSegments, currentGroup) ==
    IF i > Len(words) THEN captionSegments
    ELSE LET group == Append(currentGroup, words[i])
         IN IF shouldBreak(words, i, group) \/ i = Len(words)
            THEN GroupFrom(words, i + 1, Append(captionSegments, CaptionSegmentOf(group)), <<>>)
            ELSE GroupFrom(words, i + 1, captionSegments, group)

groupIntoSegments(words) == GroupFrom(words, 1, <<>>, <<>>)

\* the word lists: up to MaxWords words of 0.2 seconds, each 0.1 or 0.5 seconds
\* after the word before it (the pause that breaks a group is more than 0.3)
Gaps == {10, 50}
WordLength == 20

RECURSIVE StartOf(_, _)
StartOf(gaps, i) ==
    IF i = 1 THEN gaps[1] ELSE StartOf(gaps, i - 1) + WordLength + gaps[i]

WordLists ==
    UNION { { [i \in 1..n |-> [word |-> texts[i], start |-> StartOf(gaps, i),
                               end |-> StartOf(gaps, i) + WordLength]] :
              texts \in [1..n -> Texts], gaps \in [1..n -> Gaps] } : n \in 0..MaxWords }

InitGroup ==
    /\ NoRows
    /\ \E words \in WordLists : input = [fn |-> "groupIntoSegments", words |-> words]
    /\ output = <<>>

CallGroupIntoSegments ==
    /\ input.fn = "groupIntoSegments"
    /\ output = <<>>
    /\ output' = <<groupIntoSegments(input.words)>>
    /\ UNCHANGED <<jobs, videos, segments, clips, downloadQueue, analysisQueue,
                   extractionQueue, faults, input>>

SpecGroup == InitGroup /\ [][CallGroupIntoSegments]_vars

\* ------------------------------------------------------- speech analysis
\* analyzeSpeech as the batch loop of the analysis handler calls it: batch.map
\* starts every invocation of the batch before it awaits anything, so each
\* invocation reads Date.now() and starts its mkdir before any other step of any
\* invocation runs; the clock (in milliseconds) may or may not advance between
\* two reads.  From then on the invocations interleave at their awaits.
\* output[1] holds the clock, the invocations ([pc, tempDir, heard]: heard is
\* the invocation whose audio transcribeWithWhisper read, 0 for none), the
\* directories that exist and, per directory, the invocation that wrote its
\* audio.mp3 (0: no such file).
SpeechBatches == {2, 3}

InitSpeech ==
    /\ NoRows
    /\ \E batch \in SpeechBatches : input = [fn |-> "analyzeSpeech", batch |-> batch]
    /\ output = <<[now |-> 0,
                   calls |-> [i \in 1..input.batch |->
                                [pc |-> "start", tempDir |-> 0, heard |-> 0]],
                   dirs |-> {},
                   audio |-> [d \in 0..MaxClock |-> 0]]>>

SpeechUnchanged ==
    UNCHANGED <<jobs, videos, segments, clips, downloadQueue, analysisQueue,
                extractionQueue, input>>

\* the system clock advances by a millisecond
ClockTick ==
    /\ input.fn = "analyzeSpeech"
    /\ output[1].now < MaxClock
    /\ output' = <<[output[1] EXCEPT !.now = @ + 1]>>
    /\ UNCHANGED faults
    /\ SpeechUnchanged

\* const tempDir = `/tmp/speech-${Date.now()}`; the invocations start in the
\* order of the batch
SpeechDateNow(i) ==
    /\ input.fn = "analyzeSpeech"
    /\ output[1].calls[i].pc = "start"
    /\ \A j \in 1..(i - 1) : output[1].calls[j].pc # "start"
    /\ output' = <<[output[1] EXCEPT !.calls[i].tempDir = output[1].now,
                                    !.calls[i].pc = "mkdir"]>>
    /\ UNCHANGED faults
    /\ SpeechUnchanged

\* every invocation of the batch has been started
BatchStarted == \A j \in 1..input.batch : output[1].calls[j].pc # "start"

\* mkdir -p tempDir
SpeechMkdir(i) ==
    /\ input.fn = "analyzeSpeech" /\ BatchStarted
    /\ output[1].calls[i].pc = "mkdir"
    /\ output' = <<[output[1] EXCEPT !.dirs = @ \cup {output[1].calls[i].tempDir},
                                    !.calls[i].pc = "extractAudio"]>>
    /\ UNCHANGED faults
    /\ SpeechUnchanged

\* extractAudio: ffmpeg -y writes tempDir/audio.mp3; it fails when the directory
\* is not there, or on its own
SpeechExtractAudio(i) ==
    /\ input.fn = "analyzeSpeech" /\ BatchStarted
    /\ output[1].calls[i].pc = "extractAudio"
    /\ LET tempDir == output[1].calls[i].tempDir
       IN \/ /\ tempDir \in output[1].dirs
             /\ output' = <<[output[1] EXCEPT !.audio[tempDir] = i,
                                             !.calls[i].pc = "transcribe"]>>
             /\ UNCHANGED faults
          \/ /\ tempDir \notin output[1].dirs
             /\ output' = <<[output[1] EXCEPT !.calls[i].pc = "catch"]>>
             /\ UNCHANGED faults
          \/ /\ Fault
             /\ output' = <<[output[1] EXCEPT !.calls[i].pc = "catch"]>>
    /\ SpeechUnchanged

\* transcribeWithWhisper(audioPath) reads the file that is at audioPath; it
\* catches its own errors (a missing file gives no transcript)
SpeechTranscribe(i) ==
    /\ input.fn = "analyzeSpeech" /\ BatchStarted
    /\ output[1].calls[i].pc = "transcribe"
    /\ output' = <<[output[1] EXCEPT
           !.calls[i].heard = output[1].audio[output[1].calls[i].tempDir],
           !.calls[i].pc = "cleanup"]>>
    /\ UNCHANGED faults
    /\ SpeechUnchanged

\* rm -rf tempDir, after the analysis or in the catch; then the invocation returns
SpeechCleanup(i) ==
    /\ input.fn = "analyzeSpeech" /\ BatchStarted
    /\ output[1].calls[i].pc \in {"cleanup", "catch"}
    /\ output' = <<[output[1] EXCEPT !.dirs = @ \ {output[1].calls[i].tempDir},
                                    !.audio[output[1].calls[i].tempDir] = 0,
                                    !.calls[i].pc = "returned"]>>
    /\ UNCHANGED faults
    /\ SpeechUnchanged

NextSpeech ==
    \/ ClockTick
    \/ \E i \in 1..input.batch : SpeechDateNow(i)
    \/ \E i \in 1..input.batch : SpeechMkdir(i)
    \/ \E i \in 1..input.batch : SpeechExtractAudio(i)
    \/ \E i \in 1..input.batch : SpeechTranscribe(i)
    \/ \E i \in 1..input.batch : SpeechCleanup(i)

SpecSpeech == InitSpeech /\ [][NextSpeech]_vars

\* =================================================================== claims
JobIds == 1..Len(jobs)

StatusOrder(status) ==
    CASE status = "queued" -> 0
      [] status = "downloading" -> 1
      [] status = "analyzing" -> 2
      [] status = "extracting" -> 3
      [] status = "completed" -> 4
      [] OTHER -> 5

ClipsOfVideo(videoId) == { c \in 1..Len(clips) : clips[c].videoId = videoId }
ClipsOfSegment(segmentId) == { c \in 1..Len(clips) : clips[c].segmentId = segmentId }
ExtractionTasksOf(jobId) == { e \in 1..Len(extractionQueue) : extractionQueue[e].jobId = jobId }
AnalysisTasksOf(jobId) == { a \in 1..Len(analysisQueue) : analysisQueue[a].jobId = jobId }

\* C1: a Job's status, while it is not failed, changes only to failed or to a
\* status later in queued, downloading, analyzing, extracting, completed.
C1_StatusMovesForward ==
    [][\A j \in JobIds :
          (jobs[j].status # "failed" /\ jobs'[j].status # jobs[j].status)
          => \/ jobs'[j].status = "failed"
             \/ StatusOrder(jobs'[j].status) > StatusOrder(jobs[j].status)]_vars

\* C2: once a Job's status is failed, no step changes it.
C2_FailedIsTerminal ==
    [][\A j \in JobIds : jobs[j].status = "failed" => jobs'[j].status = "failed"]_vars

\* C3: a Job is completed exactly when its Video has at least one Segment and
\* at least as many Clips as Segments.
C3_CompletedIffAllClips ==
    \A j \in JobIds :
        jobs[j].status = "completed"
        <=> /\ jobs[j].videoId # 0
            /\ Cardinality(SegmentsOf(jobs[j].videoId)) > 0
            /\ Cardinality(ClipsOfVideo(jobs[j].videoId))
                  >= Cardinality(SegmentsOf(jobs[j].videoId))

\* C4: a completed Job has progress 100 and completed_at set, and no step lowers
\* the progress of a Job that is and stays completed.
C4_CompletedKeepsFullProgress ==
    /\ [](\A j \in JobIds :
             jobs[j].status = "completed" => jobs[j].progress = 100 /\ jobs[j].completedAt)
    /\ [][\A j \in JobIds :
             (jobs[j].status = "completed" /\ jobs'[j].status = "completed")
             => jobs'[j].progress >= jobs[j].progress]_vars

\* C5: no Segment ever has more than one Clip row, however often its extraction
\* task runs.
C5_OneClipPerSegment ==
    \A s \in 1..Len(segments) : Cardinality(ClipsOfSegment(s)) <= 1

\* C6: no two Video rows carry the same external id (youtubeId), however many
\* download tasks for that source ran.
C6_OneVideoPerExternalId ==
    \A v, w \in 1..Len(videos) : videos[v].youtubeId = videos[w].youtubeId => v = w

\* C6 witness: a download run for a source whose Video row exists had its insert
\* rejected, with no external call having failed.
C6_SecondInsertRejected ==
    \E t \in 1..Len(downloadQueue) :
        /\ downloadQueue[t].state = "active" /\ downloadQueue[t].pc = "catch"
        /\ faults = MaxFaults
        /\ \E v \in 1..Len(videos) :
              videos[v].youtubeId = extractVideoId(downloadQueue[t].youtubeUrl)
        /\ Len(videos) = 1

\* C7: a download run that reaches the Video insert when a Video with its
\* external id exists links the Job to that Video and goes on to the analysis
\* enqueue; it does not enter the failure path.
C7_ExistingVideoIsReused ==
    [][\A t \in 1..Len(downloadQueue) :
          (/\ downloadQueue[t].state = "active" /\ downloadQueue[t].pc = "create"
           /\ downloadQueue'[t] # downloadQueue[t]
           /\ \E v \in 1..Len(videos) :
                 videos[v].youtubeId = extractVideoId(downloadQueue[t].youtubeUrl))
          => /\ downloadQueue'[t].pc = "enqueue"
             /\ jobs'[downloadQueue[t].jobId].videoId # 0
             /\ videos[jobs'[downloadQueue[t].jobId].videoId].youtubeId
                   = extractVideoId(downloadQueue[t].youtubeUrl)]_vars

\* C8: when no external call failed, the analysis task of a Job has returned and
\* every extraction task of the Job has returned, the Job is completed with
\* progress 100.
C8_FinalAggregateIsLastWrite ==
    \A j \in JobIds :
        (/\ faults = MaxFaults
         /\ AnalysisTasksOf(j) # {}
         /\ \A a \in AnalysisTasksOf(j) : analysisQueue[a].state = "completed"
         /\ ExtractionTasksOf(j) # {}
         /\ \A e \in ExtractionTasksOf(j) : extractionQueue[e].state = "completed")
        => jobs[j].status = "completed" /\ jobs[j].progress = 100

\* C9: a download handler changes a Job row only while no analysis task of that
\* Job exists, and an analysis handler changes a Job row only while no extraction
\* task of that Job exists.
C9_OneStageWritesTheJob ==
    [][/\ \A t \in 1..Len(downloadQueue) :
             (downloadQueue'[t] # downloadQueue[t]
              /\ jobs'[downloadQueue[t].jobId] # jobs[downloadQueue[t].jobId])
             => AnalysisTasksOf(downloadQueue[t].jobId) = {}
       /\ \A t \in 1..Len(analysisQueue) :
             (analysisQueue'[t] # analysisQueue[t]
              /\ jobs'[analysisQueue[t].jobId] # jobs[analysisQueue[t].jobId])
             => ExtractionTasksOf(analysisQueue[t].jobId) = {}]_vars

\* C10: the progress of every Job is between 0 and 100.
C10_ProgressInRange ==
    \A j \in JobIds : jobs[j].progress >= 0 /\ jobs[j].progress <= 100

\* C11: when every attempt of a download task has failed, the task's Job is
\* failed with an error message set, and no Video row exists for the task's source.
C11_ExhaustedDownloadLeavesNoVideo ==
    \A t \in 1..Len(downloadQueue) :
        downloadQueue[t].state = "failed"
        => /\ jobs[downloadQueue[t].jobId].status = "failed"
           /\ jobs[downloadQueue[t].jobId].errorMessage
           /\ \A v \in 1..Len(videos) :
                 videos[v].youtubeId # extractVideoId(downloadQueue[t].youtubeUrl)

\* C12: the Segment rows of one Video never overlap as half-open intervals,
\* whether the analysis task ran once or was retried.
C12_SegmentsNeverOverlap ==
    \A s1, s2 \in 1..Len(segments) :
        (s1 # s2 /\ segments[s1].videoId = segments[s2].videoId)
        => \/ segments[s1].endTime <= segments[s2].startTime
           \/ segments[s2].endTime <= segments[s1].startTime

\* skip_intro and skip_outro of a duration, in hundredths of a second
SkipIntro(d) == Min(2500, d * 12)
SkipOutro(d) == Min(2000, d * 8)

\* C13: every window generateSlidingWindows(D) returns is between MIN_CLIP and
\* MAX_CLIP seconds long, starts at or after skip_intro and ends at or before
\* D - skip_outro.
C13_WindowsWithinUsableRange ==
    \A r \in 1..Len(output) : \A w \in 1..Len(output[r]) :
        LET window == output[r][w]
            d == input.totalDuration
        IN /\ MIN_CLIP <= window.end - window.start
           /\ window.end - window.start <= MAX_CLIP
           /\ SkipIntro(d) <= window.start * 100
           /\ window.end * 100 <= d * 100 - SkipOutro(d)

\* C14: every Segment row has 0 <= startTime < endTime <= the duration of its
\* Video.
C14_SegmentWithinVideo ==
    \A s \in 1..Len(segments) :
        /\ 0 <= segments[s].startTime
        /\ segments[s].startTime < segments[s].endTime
        /\ segments[s].endTime <= videos[segments[s].videoId].duration

\* C14 witness: an analysis run has persisted several Segments of one Video, the
\* last of them ending in the Video's final 30 seconds.
C14_SeveralSegmentsPersisted ==
    /\ Len(segments) >= 3
    /\ \E s \in 1..Len(segments) :
          segments[s].endTime + PREFERRED > videos[segments[s].videoId].duration

\* C17: a download task whose URL cannot be parsed is not run again after its
\* first run failed.
C17_UnparseableUrlNotRetried ==
    [][\A t \in 1..Len(downloadQueue) :
          (/\ extractVideoId(downloadQueue[t].youtubeUrl) = NoId
           /\ downloadQueue[t].attemptsMade >= 1)
          => ~(downloadQueue[t].state = "waiting" /\ downloadQueue'[t].state = "active")]_vars

\* C18: when an analysis run for a Video of duration <= 0 has returned, the Job
\* is failed, not completed.
C18_NoDurationFailsTheJob ==
    \A a \in 1..Len(analysisQueue) :
        (/\ analysisQueue[a].state = "completed"
         /\ videos[analysisQueue[a].videoId].duration <= 0)
        => jobs[analysisQueue[a].jobId].status = "failed"

\* D < MIN_CLIP + skip_intro + skip_outro
TooShort(d) == d * 100 < MIN_CLIP * 100 + SkipIntro(d) + SkipOutro(d)

C20_ExhaustedExtractionStaysExtracting ==
    \A e \in 1..Len(extractionQueue) :
        extractionQueue[e].state = "failed"
        => jobs[extractionQueue[e].jobId].status = "extracting"

\* C15: the compositeScore calculateRetentionScore returns is between 0 and 1.
C15_CompositeScoreInUnitRange ==
    \A r \in 1..Len(output) :
        output[r].compositeScore >= 0 /\ output[r].compositeScore <= OneE9

\* C15 witness: a call whose weighted sum after the position and duration
\* bonuses is above 1 has returned.
C15_BonusesExceedOne ==
    \E r \in 1..Len(output) :
        /\ applyDurationBonus(applyPositionBonus(output[r].audioScore * 40
                                                 + output[r].speechScore * 35
                                                 + output[r].visualScore * 25,
                                                 input.segmentMetadata.position),
                              input.segmentMetadata.duration) > OneE9
        /\ output[r].compositeScore = OneE9

C22_ThumbnailFailureIsNotFatal ==
    [][\A e \in 1..Len(extractionQueue) :
          (extractionQueue[e].pc = "thumbnail" /\ extractionQueue'[e] # extractionQueue[e])
          => extractionQueue'[e].pc = "upload"]_vars

\* C23: a caption block that ends without captions (none returned, or an
\* error) lets the run go on to the thumbnail, and when that run updates the
\* Segment, the Segment is extracted with hasCaptions false, captionStyle null
\* and captionData null, and has a Clip.
C23_CaptionFailureIsNotFatal ==
    [][\A e \in 1..Len(extractionQueue) :
          LET task == extractionQueue[e]
              after == extractionQueue'[e]
          IN /\ (task.pc = "work" /\ after.captions \in {"empty", "failed"})
                => after.pc = "thumbnail"
             /\ (task.pc = "segment" /\ task.captions \in {"empty", "failed"}
                 /\ after.pc = "progressRead")
                => /\ segments'[task.segmentId].status = "extracted"
                   /\ ~segments'[task.segmentId].hasCaptions
                   /\ segments'[task.segmentId].captionStyle = "null"
                   /\ segments'[task.segmentId].captionData = "null"
                   /\ ClipsOfSegment(task.segmentId) # {}]_vars

\* C23 witness: the only Segment is extracted without captions by the first run
\* of its task, in which one call failed: the failure was in the caption block.
C23_CaptionFailureSurvived ==
    /\ Len(segments) = 1
    /\ segments[1].status = "extracted"
    /\ ~segments[1].hasCaptions
    /\ faults = ExtractionAttempts - 1
    /\ extractionQueue[1].attemptsMade = 0
    /\ ClipsOfSegment(1) # {}

\* C24, as the specification words it: for a Video of 300 seconds generateSlidingWindows emits
\* exactly 57 windows.
C24_FiftySevenWindows ==
    (input.fn = "generateSlidingWindows" /\ input.totalDuration = 300 /\ output # <<>>)
    => Len(output[1]) = 57

\* C24, as it holds of the code: for a Video of 300 seconds generateSlidingWindows emits exactly
\* 49 windows, one per centre 25, 30, ..., 265.
C24_FortyNineWindows ==
    (input.fn = "generateSlidingWindows" /\ input.totalDuration = 300 /\ output # <<>>)
    => /\ Len(output[1]) = 49
       /\ \A w \in 1..49 : output[1][w].start = Max(25, 25 + STEP * (w - 1) - PREFERRED \div 2)

\* C24 witness: generateSlidingWindows(300) has returned.
C24_FiveMinuteVideoWindowed ==
    /\ input.fn = "generateSlidingWindows" /\ input.totalDuration = 300
    /\ output # <<>> /\ Len(output[1]) > 0

\* half-open intervals [start, end) intersect
Intersects(a, b) == a.start < b.end /\ b.start < a.end

\* a is ranked at least as high as b: composite, then confidence
AtLeast(a, b) ==
    \/ a.analysis.compositeScore > b.analysis.compositeScore
    \/ /\ a.analysis.compositeScore = b.analysis.compositeScore
       /\ a.analysis.confidence >= b.analysis.confidence

\* every candidate of the Video got the same analyzer results
UniformSignals == input.fn = "selection" /\ Len(input.signals) = 1

\* the scored candidates of the run
AnalyzedOfRun == analyzedSegments(input.totalDuration, input.signals)

\* rankSegments has returned and no Segment of the run is created yet
Ranked == input.fn = "selection" /\ output # <<>> /\ output[1].segments = <<>>

\* C25, as the specification words it: for D = 300 and the same signals on every candidate,
\* rankSegments returns exactly 8 windows, pairwise non-overlapping.
C25_EightWindowsSelected ==
    (UniformSignals /\ input.totalDuration = 300 /\ Ranked)
    => /\ Len(output[1].ranked) = 8
       /\ \A k, l \in 1..Len(output[1].ranked) :
             k # l => ~Intersects(output[1].ranked[k], output[1].ranked[l])

\* C25, as it holds of the code: for D = 300 and the same signals on every candidate,
\* rankSegments returns pairwise non-overlapping windows: 8 of them when every
\* composite score is 0, and 7 when a composite score is positive.
C25_SevenWindowsSelected ==
    (UniformSignals /\ input.totalDuration = 300 /\ Ranked)
    => /\ Len(output[1].ranked) =
             IF \A c \in 1..Len(AnalyzedOfRun) : AnalyzedOfRun[c].analysis.compositeScore = 0
             THEN 8 ELSE 7
       /\ \A k, l \in 1..Len(output[1].ranked) :
             k # l => ~Intersects(output[1].ranked[k], output[1].ranked[l])

\* C25 witness: the selection has run for D = 300 on the fallback signals, whose
\* composite scores are positive, and left 42 of the 49 candidates out.
C25_UniformFiveMinuteVideoRanked ==
    /\ UniformSignals /\ input.totalDuration = 300 /\ input.signals[1] = FallbackSignals
    /\ output # <<>>
    /\ Len(AnalyzedOfRun) = 49
    /\ Len(output[1].ranked) = 7

\* C26: for a Video of 42 seconds generateSlidingWindows emits at most one
\* window, the Video never has more than one Clip, and once its analysis task
\* has returned the Job is completed.
C26_ShortVideoOneCandidate ==
    \A a \in 1..Len(analysisQueue) :
        LET task == analysisQueue[a]
        IN videos[task.videoId].duration = 42
           => /\ Len(generateSlidingWindows(42)) <= 1
              /\ Cardinality(ClipsOfVideo(task.videoId)) <= 1
              /\ task.state = "completed" => jobs[task.jobId].status = "completed"

\* C27: when the handler has run twice on a Video with the same analyzer
\* results, the two runs selected the same windows in the same order and
\* persisted the same Segment values.
C27_SelectionIsDeterministic ==
    (/\ input.fn = "selection" /\ Len(output) = 2
     /\ Len(output[1].segments) = Len(output[1].ranked))
    => /\ output[1].ranked = output[2].ranked
       /\ output[1].segments = output[2].segments

\* C28: calculateRetentionScore raises the speech score to min(1, speech + 0.25)
\* before the composite is computed, and appends the hook suffix to the reason,
\* exactly when the position is below 0.3 and a transcript starting in the
\* first 3 seconds matches a hook pattern or a loud moment is in the first 3
\* seconds; otherwise the speech score is the analyzer's and the suffix absent.
C28_HookBonusWhenEarlyHook ==
    \A r \in 1..Len(output) :
        input.fn = "calculateRetentionScore"
        => LET speech == input.speechAnalysis
               earlyTrigger == \E t \in 1..Len(speech.transcripts) :
                                  /\ speech.transcripts[t].startTime < 30
                                  /\ speech.transcripts[t].text \in QuestionTexts \cup ExcitementTexts
               earlyLoud == \E m \in 1..Len(input.audioAnalysis.loudMoments) :
                               input.audioAnalysis.loudMoments[m] < 3
               hook == (earlyTrigger \/ earlyLoud) /\ input.segmentMetadata.position < 300
               expected == IF hook THEN Min(One, speech.speechScore + 250)
                           ELSE speech.speechScore
               weighted == output[r].audioScore * 40 + expected * 35
                           + output[r].visualScore * 25
           IN /\ output[r].speechScore = expected
              /\ output[r].compositeScore =
                    Max(0, Min(OneE9, applyDurationBonus(
                                          applyPositionBonus(weighted,
                                                             input.segmentMetadata.position),
                                          input.segmentMetadata.duration)))
              /\ hook <=> output[r].reason[Len(output[r].reason)] = HookSuffix

\* C28 witness: a call for a segment at position 0.2 with an early hook pattern
\* and no loud moment has returned the speech score raised by 0.25.
C28_HookRaisedSpeech ==
    \E r \in 1..Len(output) :
        /\ input.fn = "calculateRetentionScore"
        /\ input.segmentMetadata.position = 200
        /\ input.audioAnalysis.loudMoments = <<>>
        /\ input.speechAnalysis.speechScore = 500
        /\ output[r].speechScore = 750
        /\ output[r].reason[Len(output[r].reason)] = HookSuffix

\* C29: rankSegments returns at most topN windows, pairwise non-overlapping as
\* half-open intervals, in the order composite descending then confidence
\* descending; a candidate is left out only if it intersects a returned window
\* ranked at least as high, or if topN windows ranked at least as high were
\* returned; and the three-clause overlap test is interval intersection.
C29_GreedyNonOverlappingTopN ==
    Ranked
    => LET analyzed == AnalyzedOfRun
           ranked == output[1].ranked
       IN /\ Len(ranked) <= TopN
          /\ \A k, l \in 1..Len(ranked) : k # l => ~Intersects(ranked[k], ranked[l])
          /\ \A k \in 1..Len(ranked) :
                /\ ranked[k].rank = k
                /\ k < Len(ranked) => AtLeast(ranked[k], ranked[k + 1])
                /\ \E c \in 1..Len(analyzed) :
                      /\ analyzed[c].start = ranked[k].start /\ analyzed[c].end = ranked[k].end
                      /\ analyzed[c].analysis = ranked[k].analysis
          /\ \A c \in 1..Len(analyzed) :
                \/ \E k \in 1..Len(ranked) :
                      Intersects(analyzed[c], ranked[k]) /\ AtLeast(ranked[k], analyzed[c])
                \/ Len(ranked) = TopN /\ AtLeast(ranked[TopN], analyzed[c])
          /\ \A c, d \in 1..Len(analyzed) :
                hasOverlap(analyzed[c], <<analyzed[d]>>) <=> Intersects(analyzed[c], analyzed[d])

\* C29 witness: a selection has left candidates out, and returned a window that
\* starts before the window ranked above it.
C29_RankOrderIsNotTimeOrder ==
    /\ input.fn = "selection" /\ output # <<>>
    /\ Len(AnalyzedOfRun) > Len(output[1].ranked)
    /\ \E k \in 1..Len(output[1].ranked) - 1 :
          /\ output[1].ranked[k + 1].start < output[1].ranked[k].start
          /\ output[1].ranked[k + 1].analysis.compositeScore
                < output[1].ranked[k].analysis.compositeScore

\* C30: the Segment row created for a ranked window, and the extraction task
\* enqueued for it, carry the window's adjustedStart and adjustedEnd (tenths of
\* a second).
C30_SegmentCarriesAdjustedTimes ==
    \A a \in 1..Len(analysisQueue) :
        \A k \in 1..Len(analysisQueue[a].created) :
            LET r == analysisQueue[a].ranked[k]
                segmentId == analysisQueue[a].created[k]
            IN /\ segments[segmentId].startTime * 10 = r.adjustedStart
               /\ segments[segmentId].endTime * 10 = r.adjustedEnd
               /\ \A e \in 1..Len(extractionQueue) :
                     extractionQueue[e].segmentId = segmentId
                     => /\ extractionQueue[e].start * 10 = r.adjustedStart
                        /\ extractionQueue[e].end * 10 = r.adjustedEnd

\* the end of the window after scene snapping, in tenths of a second
SnappedEnd ==
    LET boundary == findNearestSceneBoundary(input.scenes.sceneChanges, input.end, 3)
    IN IF boundary # NoBoundary THEN boundary * 10 ELSE input.end * 10

\* the ends of the transcripts that end within 2 seconds of the snapped end
EndsNearSnappedEnd ==
    { input.speech.transcripts[t].endTime : t \in
        { u \in 1..Len(input.speech.transcripts) :
             Abs(input.speech.transcripts[u].endTime - SnappedEnd) < 20 } }

\* C31: when a transcript ends within 2 seconds of the scene-snapped end,
\* adjustSegmentBoundaries returns the end of such a transcript plus 0.3 (or
\* the start plus 15 seconds, if that is later); when none does, it returns the
\* snapped end (or the start plus 15 seconds): a transcript ending 1.9 seconds
\* after the end extends it, one ending 2.1 seconds after it does not.
C31_TranscriptNearEndExtends ==
    (input.fn = "adjustSegmentBoundaries" /\ output # <<>>)
    => IF EndsNearSnappedEnd # {}
       THEN \E e \in EndsNearSnappedEnd :
               output[1].end = Max(e + 3, output[1].start + MIN_CLIP * 10)
       ELSE output[1].end = Max(SnappedEnd, output[1].start + MIN_CLIP * 10)

\* C39: the end adjustSegmentBoundaries returns is never earlier than the end
\* after scene snapping.
C39_SpeechStepOnlyExtends ==
    (input.fn = "adjustSegmentBoundaries" /\ output # <<>>)
    => output[1].end >= SnappedEnd

\* C33: the intervals [adjustedStart, adjustedEnd) of the windows one
\* rankSegments call selects are pairwise non-overlapping.
C33_AdjustedIntervalsDisjoint ==
    Ranked
    => \A k, l \in 1..Len(output[1].ranked) :
          k # l => ~Intersects([start |-> output[1].ranked[k].adjustedStart,
                                end |-> output[1].ranked[k].adjustedEnd],
                               [start |-> output[1].ranked[l].adjustedStart,
                                end |-> output[1].ranked[l].adjustedEnd])

\* C34: in every reachable state a Segment with status extracted has at least
\* one Clip: the handler inserts the Clip row before it updates the Segment.
C34_ExtractedSegmentHasClip ==
    \A s \in 1..Len(segments) :
        segments[s].status = "extracted" => ClipsOfSegment(s) # {}

\* a failure between the two writes: the Clip is inserted, the Segment update
\* fails, and the next attempt inserts a second Clip and updates the Segment
C34_ExtractedAfterFailedUpdate ==
    \E s \in 1..Len(segments) :
        /\ segments[s].status = "extracted"
        /\ Cardinality(ClipsOfSegment(s)) = 2

\* C35: once a Segment is extracted it stays extracted: no step of an
\* extraction task, re-delivered or not, moves it to another status.
C35_ExtractedStaysExtracted ==
    [][\A s \in 1..Len(segments) :
          segments[s].status = "extracted" => segments'[s].status = "extracted"]_vars

\* C36: once the analysis task of a Video has returned, or has failed with its
\* retries exhausted, every Segment of that Video has an extraction task
\* enqueued for it.
C36_EverySegmentHasATask ==
    \A t \in 1..Len(analysisQueue) :
        analysisQueue[t].state \in {"completed", "failed"}
        => \A s \in SegmentsOf(analysisQueue[t].videoId) :
              \E e \in 1..Len(extractionQueue) : extractionQueue[e].segmentId = s

\* the words of the first k segments, in order
RECURSIVE Concatenated(_, _)
Concatenated(captionSegments, k) ==
    IF k = 0 THEN <<>> ELSE Concatenated(captionSegments, k - 1) \o captionSegments[k].words

\* C32: every CaptionSegment groupIntoSegments returns has between 2 and 5
\* words, the last one included.
C32_TwoToFiveWords ==
    (input.fn = "groupIntoSegments" /\ output # <<>>)
    => \A k \in 1..Len(output[1]) :
          Len(output[1][k].words) >= 2 /\ Len(output[1][k].words) <= 5

\* C40: groupIntoSegments loses and duplicates no word: the words of the
\* segments, concatenated in order, are the input list, and every segment starts
\* where its first word starts and ends where its last word ends.
C40_WordsArePartitioned ==
    (input.fn = "groupIntoSegments" /\ output # <<>>)
    => /\ Concatenated(output[1], Len(output[1])) = input.words
       /\ \A k \in 1..Len(output[1]) :
             /\ output[1][k].words # <<>>
             /\ output[1][k].start = output[1][k].words[1].start
             /\ output[1][k].end = output[1][k].words[Len(output[1][k].words)].end

\* a list of six words cut after the fifth: the last segment is a single word
C40_ListCutAfterFive ==
    /\ input.fn = "groupIntoSegments" /\ output # <<>>
    /\ Len(output[1]) = 2
    /\ Len(output[1][1].words) = 5
    /\ Len(output[1][2].words) = 1

\* the invocations of analyzeSpeech that have read the clock and not returned
RunningSpeech ==
    { i \in 1..input.batch : output[1].calls[i].pc \notin {"start", "returned"} }

\* C38: two speech analyses of one batch that run at the same time never have
\* the same temp directory, and an invocation that is about to transcribe finds
\* the audio file it wrote: no other invocation's cleanup has deleted it.
C38_TempDirsAreDistinct ==
    input.fn = "analyzeSpeech"
    => /\ \A i, j \in RunningSpeech :
             i # j => output[1].calls[i].tempDir # output[1].calls[j].tempDir
       /\ \A i \in RunningSpeech :
             output[1].calls[i].pc = "transcribe"
             => output[1].audio[output[1].calls[i].tempDir] # 0

\* no task of any queue is waiting or running
Quiescent ==
    \A queue \in {downloadQueue, analysisQueue, extractionQueue} :
        \A t \in 1..Len(queue) : queue[t].state \in {"completed", "failed"}

\* C37: when every task has finished for good, whether its attempts succeeded
\* or failed, every Job is completed or failed: the pipeline comes to rest in a
\* terminal Job state.
C37_QuiescesInTerminalState ==
    Quiescent => \A j \in 1..Len(jobs) : jobs[j].status \in {"completed", "failed"}
====
